---- MODULE Spec2Model ----
(***************************************************************************)
(* Availability and booking engine of FAL_user_service                     *)
(* (src/app/services/calendar_service.py).                                 *)
(*                                                                         *)
(* Representation.                                                         *)
(*  - A table is the collection of its rows: calendar_settings is a        *)
(*    sequence of rows, admin_availability_general a function keyed by     *)
(*    day_of_week, admin_availability_overrides a function keyed by        *)
(*    override_date (both are written with on_conflict on that key), and   *)
(*    bookings a sequence whose index is the row id.                       *)
(*  - None, NULL and the empty string are all <<>> (they are all falsy in  *)
(*    the code's truthiness tests). A nullable integer is <<>> or <<n>>.   *)
(*  - A wall-clock string "HH:MM" is the tuple <<h, m>> of its fields; the *)
(*    time column of the store returns "HH:MM:SS", the tuple <<h, m, s>>.  *)
(*  - A date is its day number; day 0 is a Monday. An instant is a number  *)
(*    of minutes since 00:00 UTC of day 0. A call reads the clock once.    *)
(*  - The store is the plain tables the code reads and writes: the code    *)
(*    opens no transaction and handles no constraint violation, and the    *)
(*    schema is not part of the repository.                                *)
(*                                                                         *)
(* Specifications (same state, same operations, different callers):        *)
(*    Spec         create_booking and cancel_booking, one call at a time   *)
(*    SpecPolicy   create_booking under every policy, as the clock ticks   *)
(*    SpecAvail    create_booking under every template and override        *)
(*    SpecResolve  templates, overrides and get_public_availability        *)
(*    SpecConc     concurrent create_booking calls, select and insert      *)
(*                 interleaved                                             *)
(*    SpecCancel   cancel_booking by owners, other users and the           *)
(*                 administrator, with cancellation switched on and off    *)
(*    SpecCancelNotice  cancel_booking under a cancellation notice, as the *)
(*                 clock ticks                                             *)
(*    SpecTemplate every valid weekly template written and read back       *)
(*    SpecList     bookings created, cancelled and listed                  *)
(*    SpecConcCancel  concurrent cancel_booking calls, select and update   *)
(*                 interleaved                                             *)
(*    SpecConcTemplate  upsert_general_availability row by row, with reads *)
(*                 in between                                              *)
(*    SpecConcSettings  concurrent upsert_settings calls, read and write   *)
(*                 interleaved                                             *)
(*    SpecZone     create_booking under policies of different time zones   *)
(*    SpecReads    every table written and every read function called      *)
(*    SpecFrame    rejected and accepted create_booking and cancel_booking *)
(*    SpecProcess  the process: lifespan startup (main.py), then the token *)
(*                 blacklist (token_blacklist_service.py) while serving    *)
(*    FairSpecProcess  the same, the lifespan coroutine always scheduled   *)
(***************************************************************************)
EXTENDS Integers, Sequences, FiniteSets, TLC

VARIABLES
    settings,   \* table calendar_settings
    general,    \* table admin_availability_general
    overrides,  \* table admin_availability_overrides
    bookings,   \* table bookings
    now,        \* the clock read by datetime.now(timezone.utc)
    last,       \* the last completed service call: its name, arguments, result
                \* (days holds the list a read returns)
    calls,      \* service calls in flight, one per concurrent request
    user_rows,  \* table users (the rows run_admin_upsert reads and writes)
    startup,    \* the lifespan coroutine: where it is, the attempt number,
                \* the run_admin_upsert calls made, the seconds slept and
                \* whether an attempt succeeded
    token_blacklist,    \* table token_blacklist: token_hash -> expires_at
    blacklisted_cache,  \* _blacklisted_cache of this process
    stored_ever,        \* history: the hashes the table has ever held
    revoked             \* history: the tokens for which blacklist_token has
                        \* returned in this process

\* The state of the process around the calendar service.
process ==
    <<user_rows, startup, token_blacklist, blacklisted_cache, stored_ever, revoked>>

vars == <<settings, general, overrides, bookings, now, last, calls, process>>

\* ------------------------------------------------------------------ bounds

MaxBookings == 2    \* rows the bookings table may hold
MaxAdmitted == 1    \* the same, where the policy or the availability varies
MaxDate == 2        \* dates are 0 .. MaxDate-1
NumProcs == 2       \* concurrent create_booking requests

\* ------------------------------------------------- constants of the code

MAX_RETRIES == 5            \* main.py
RETRY_DELAY_SECONDS == 3    \* main.py

Dates == 0 .. (MaxDate - 1)
Procs == 1 .. NumProcs

\* Instants the clock takes: 08:59, 09:00 and 09:01 of day 0.
Nows == {539, 540, 541}

\* (start_time, end_time) strings of the requests: three proper intervals, two
\* with start >= end, and one with "24:00", which dt_time refuses.
TimePairs ==
    {<<<<9, 0>>, <<9, 30>>>>, <<<<9, 30>>, <<10, 0>>>>, <<<<9, 0>>, <<10, 0>>>>,
     <<<<9, 30>>, <<9, 0>>>>, <<<<9, 0>>, <<9, 0>>>>, <<<<24, 0>>, <<9, 0>>>>}

\* The proper intervals among them.
ProperPairs == {t \in TimePairs : t[1][1] * 60 + t[1][2] < t[2][1] * 60 + t[2][2]
                                   /\ t[1][1] < 24}

\* ------------------------------------------------------------ time helpers

\* _normalise_time: val[:5], the first five characters, i.e. the "HH:MM" part.
normalise_time(val) == IF Len(val) <= 2 THEN val ELSE SubSeq(val, 1, 2)

\* What the time column gives back for a written "HH:MM": "HH:MM:00".
StoredTime(str) == IF str = <<>> THEN <<>> ELSE <<str[1], str[2], 0>>

\* sh, sm = map(int, s.split(":")); dt_time(sh, sm) raises unless this holds.
ParseOk(str) == Len(str) = 2 /\ str[1] \in 0 .. 23 /\ str[2] \in 0 .. 59

\* dt_time(sh, sm), as minutes since midnight (dt_time orders by hour, minute).
ParseTime(str) == str[1] * 60 + str[2]

\* datetime.combine(booking_date, start_t, tzinfo=timezone.utc)
Combine(d, t) == d * 1440 + t

\* timedelta(minutes=m) and timedelta(days=d), in minutes
Minutes(m) == m
Days(d) == d * 1440

\* date.weekday(): 0 = Monday
Weekday(d) == d % 7

\* Python truthiness of an int | None field: None and 0 are falsy.
Truthy(opt) == opt # <<>> /\ opt[1] # 0

\* ---------------------------------------------------------------- settings

\* get_settings: .limit(1).maybe_single(); <<>> is None
get_settings == IF settings = <<>> THEN <<>> ELSE <<settings[1]>>

Policy(mn, ma, ac, cn, ao) ==
    [min_booking_notice_minutes |-> mn, max_advance_booking_days |-> ma,
     allow_cancellation |-> ac, cancellation_notice_minutes |-> cn,
     allow_booking_outside_availability |-> ao]

\* CalendarSettingsCreate payloads the administrator submits.
PolicyPayloads ==
    {Policy(<<>>, <<>>, TRUE, <<>>, FALSE),
     Policy(<<30>>, <<>>, TRUE, <<>>, FALSE),
     Policy(<<0>>, <<>>, TRUE, <<>>, FALSE),
     Policy(<<>>, <<1>>, TRUE, <<>>, FALSE),
     Policy(<<>>, <<0>>, TRUE, <<>>, FALSE),
     Policy(<<1500>>, <<1>>, TRUE, <<>>, FALSE),
     Policy(<<>>, <<>>, TRUE, <<>>, TRUE)}

\* upsert_settings: update the row get_settings found, else insert one.
upsert_settings(data) ==
    IF get_settings # <<>>
    THEN [settings EXCEPT ![1] = data]
    ELSE Append(settings, data)

\* ------------------------------------------------ general availability

DayRow(d, en, s, e) ==
    [day_of_week |-> d, is_enabled |-> en, start_time |-> s, end_time |-> e]

\* Monday-Friday 09:00-10:00, weekend disabled.
WeekA ==
    [d \in 1 .. 7 |-> DayRow(d - 1, d - 1 < 5, <<9, 0>>, <<10, 0>>)]

\* Monday disabled, Tuesday-Friday 09:30-10:00, weekend disabled.
WeekB ==
    [d \in 1 .. 7 |-> DayRow(d - 1, d - 1 \in 1 .. 4, <<9, 30>>, <<10, 0>>)]

\* AvailabilityGeneralUpdate.days payloads the administrator submits.
TemplatePayloads == {WeekA, WeekB}

\* Seven entries that name Monday twice and Sunday never, all 09:30-10:00.
WeekDup ==
    [d \in 1 .. 7 |->
        DayRow(IF d = 1 THEN 0 ELSE d - 2, TRUE, <<9, 30>>, <<10, 0>>)]

\* Six entries, Monday to Saturday.
WeekShort == [d \in 1 .. 6 |-> DayRow(d - 1, TRUE, <<9, 0>>, <<10, 0>>)]

\* AvailabilityDaySchema.validate_day
validate_day(v) == ~(v < 0 \/ v > 6)

\* AvailabilityGeneralUpdate.validate_seven_days
validate_seven_days(v) == ~(Len(v) # 7)

\* The lists of days the administrator sends, and those of them of which an
\* AvailabilityGeneralUpdate can be constructed.
TemplateRequests == {WeekA, WeekB, WeekDup, WeekShort}

ValidTemplates ==
    {days \in TemplateRequests :
        /\ \A i \in 1 .. Len(days) : validate_day(days[i].day_of_week)
        /\ validate_seven_days(days)}

\* The rows of the table after client.table(...).upsert(day,
\* on_conflict="day_of_week") for each day of the list, in order.
RECURSIVE UpsertDays(_, _)
UpsertDays(tbl, days) ==
    IF days = <<>> THEN tbl
    ELSE LET day == Head(days)
             row == [is_enabled |-> day.is_enabled,
                     start_time |-> StoredTime(day.start_time),
                     end_time |-> StoredTime(day.end_time)]
             new == [k \in DOMAIN tbl \cup {day.day_of_week} |->
                        IF k = day.day_of_week THEN row ELSE tbl[k]]
         IN  UpsertDays(new, Tail(days))

\* get_general_availability: 7 rows, day_of_week ascending (the sequence index
\* is day_of_week + 1); a missing weekday gets the default entry.
get_general_availability ==
    [i \in 1 .. 7 |->
        IF (i - 1) \in DOMAIN general
        THEN DayRow(i - 1, general[i - 1].is_enabled,
                    normalise_time(general[i - 1].start_time),
                    normalise_time(general[i - 1].end_time))
        ELSE DayRow(i - 1, i - 1 < 5, <<8, 0>>, <<17, 0>>)]

\* ---------------------------------------------------------- overrides

OverrideRow(d, closed, s, e) ==
    [override_date |-> d, is_closed |-> closed, start_time |-> s, end_time |-> e]

\* AvailabilityOverrideCreate payloads: a closed day, an open day 09:30-10:00,
\* and an open day that names a start but no end (the class has no validator).
OverridePayloads ==
    {OverrideRow(d, TRUE, <<>>, <<>>) : d \in Dates}
    \cup {OverrideRow(d, FALSE, <<9, 30>>, <<10, 0>>) : d \in Dates}
    \cup {OverrideRow(d, FALSE, <<9, 30>>, <<>>) : d \in Dates}

\* Mutant: the upsert that leaves the row of a date that already has one.
upsert_availability_override_ignore(data) ==
    [k \in DOMAIN overrides \cup {data.override_date} |->
        IF k \in DOMAIN overrides
        THEN overrides[k]
        ELSE [is_closed |-> data.is_closed,
              start_time |-> StoredTime(data.start_time),
              end_time |-> StoredTime(data.end_time)]]

\* upsert_availability_override: upsert(data, on_conflict="override_date")
upsert_availability_override(data) ==
    [k \in DOMAIN overrides \cup {data.override_date} |->
        IF k = data.override_date
        THEN [is_closed |-> data.is_closed,
              start_time |-> StoredTime(data.start_time),
              end_time |-> StoredTime(data.end_time)]
        ELSE overrides[k]]

\* delete_availability_override: delete().eq("override_date", override_date)
delete_availability_override(d) ==
    [k \in DOMAIN overrides \ {d} |-> overrides[k]]

\* get_availability_overrides(date_from, date_to): the rows in the range,
\* by override_date, with their times normalised when present.
get_availability_overrides(date_from, date_to) ==
    [d \in {k \in DOMAIN overrides : k >= date_from /\ k <= date_to} |->
        OverrideRow(d, overrides[d].is_closed,
                    normalise_time(overrides[d].start_time),
                    normalise_time(overrides[d].end_time))]

\* --------------------------------------------------- public availability

PublicDay(d, avail, s, e, ovr) ==
    [date |-> d, is_available |-> avail, start_time |-> s, end_time |-> e,
     is_override |-> ovr]

\* One entry of "days" in get_public_availability, for the date `current`.
PublicDayOf(current, gen_list, override_map) ==
    LET dow == Weekday(current)
    IN  IF current \in DOMAIN override_map
        THEN PublicDay(current, ~override_map[current].is_closed,
                       override_map[current].start_time,
                       override_map[current].end_time, TRUE)
        ELSE IF dow < Len(gen_list)
        THEN LET gen == gen_list[dow + 1]
             IN  PublicDay(current, gen.is_enabled,
                           IF gen.is_enabled THEN gen.start_time ELSE <<>>,
                           IF gen.is_enabled THEN gen.end_time ELSE <<>>, FALSE)
        ELSE PublicDay(current, FALSE, <<>>, <<>>, FALSE)

\* Mutant: the loop that stops before date_to.
RECURSIVE PublicDaysLoopExclusive(_, _, _, _)
PublicDaysLoopExclusive(current, date_to, gen_list, override_map) ==
    IF current < date_to
    THEN <<PublicDayOf(current, gen_list, override_map)>>
         \o PublicDaysLoopExclusive(current + 1, date_to, gen_list,
                                    override_map)
    ELSE <<>>

\* The while loop of get_public_availability: current = date_from, while
\* current <= date_to, append, current += 1 day.
RECURSIVE PublicDaysLoop(_, _, _, _)
PublicDaysLoop(current, date_to, gen_list, override_map) ==
    IF current <= date_to
    THEN <<PublicDayOf(current, gen_list, override_map)>>
         \o PublicDaysLoop(current + 1, date_to, gen_list, override_map)
    ELSE <<>>

\* get_public_availability(date_from, date_to)["days"]
get_public_availability(date_from, date_to) ==
    PublicDaysLoop(date_from, date_to, get_general_availability,
                   get_availability_overrides(date_from, date_to))

\* ------------------------------------------------------------- bookings

Avail(open, s, e) == [is_available |-> open, start_time |-> s, end_time |-> e]

\* Mutant: the weekly template consulted before the override.
get_day_availability_template_first(booking_date) ==
    IF Weekday(booking_date) \in DOMAIN general
    THEN LET g == general[Weekday(booking_date)]
         IN  Avail(g.is_enabled,
                   IF g.is_enabled THEN normalise_time(g.start_time) ELSE <<>>,
                   IF g.is_enabled THEN normalise_time(g.end_time) ELSE <<>>)
    ELSE IF booking_date \in DOMAIN overrides
    THEN LET o == overrides[booking_date]
         IN  IF o.is_closed THEN Avail(FALSE, <<>>, <<>>)
             ELSE Avail(TRUE, normalise_time(o.start_time),
                        normalise_time(o.end_time))
    ELSE Avail(FALSE, <<>>, <<>>)

\* _get_day_availability(booking_date): the override row of the date if there
\* is one, else the template row of its weekday, else closed.
get_day_availability(booking_date) ==
    IF booking_date \in DOMAIN overrides
    THEN LET o == overrides[booking_date]
         IN  IF o.is_closed THEN Avail(FALSE, <<>>, <<>>)
             ELSE Avail(TRUE, normalise_time(o.start_time),
                        normalise_time(o.end_time))
    ELSE IF Weekday(booking_date) \in DOMAIN general
    THEN LET g == general[Weekday(booking_date)]
         IN  Avail(g.is_enabled,
                   IF g.is_enabled THEN normalise_time(g.start_time) ELSE <<>>,
                   IF g.is_enabled THEN normalise_time(g.end_time) ELSE <<>>)
    ELSE Avail(FALSE, <<>>, <<>>)

BookingRow(u, d, s, e, st, ca) ==
    [user_id |-> u, booking_date |-> d, start_time |-> s, end_time |-> e,
     status |-> st, cancelled_at |-> ca]

\* The error strings create_booking returns.
ReasonFormat == "Invalid time format"
ReasonMalformed == "start_time must be before end_time"
ReasonNotice == "Booking too close to start time"
ReasonAdvance == "Booking too far in the future"
ReasonClosed == "No availability on this date"
ReasonHours == "Booking outside available hours"
ReasonOverlap == "Time overlaps with an existing booking"

\* Mutant: the test that misses an existing booking the request only partly
\* covers.
OverlapsEnclosing(s1, e1, s2, e2) == s1 <= s2 /\ e1 >= e2

\* Mutant: the closed-interval test, which counts touching intervals.
OverlapsClosed(s1, e1, s2, e2) == s1 <= e2 /\ e1 >= s2

\* The half-open interval test of the overlap loop.
Overlaps(s1, e1, s2, e2) == s1 < e2 /\ e1 > s2

\* start_t, end_t parse (the try block)
InvalidFormat(s, e) == ~(ParseOk(s) /\ ParseOk(e))

\* start_t >= end_t
MalformedInterval(s, e) == ParseTime(s) >= ParseTime(e)

\* The minimum-notice test, against the settings row and the clock.
NoticeViolated(d, s) ==
    LET st == get_settings
    IN  /\ st # <<>>
        /\ Truthy(st[1].min_booking_notice_minutes)
        /\ Combine(d, ParseTime(s)) - now
              < Minutes(st[1].min_booking_notice_minutes[1])

\* The maximum-advance test.
AdvanceViolated(d, s) ==
    LET st == get_settings
    IN  /\ st # <<>>
        /\ Truthy(st[1].max_advance_booking_days)
        /\ Combine(d, ParseTime(s)) - now
              > Days(st[1].max_advance_booking_days[1])

\* allow_outside
AllowOutside ==
    IF get_settings # <<>>
    THEN get_settings[1].allow_booking_outside_availability
    ELSE FALSE

\* The availability block: "" when it lets the request through.
AvailabilityRejection(d, s, e) ==
    IF AllowOutside THEN ""
    ELSE LET avail == get_day_availability(d)
         IN  IF ~avail.is_available THEN ReasonClosed
             ELSE IF /\ avail.start_time # <<>>
                     /\ avail.end_time # <<>>
                     /\ \/ ParseTime(s) < ParseTime(avail.start_time)
                        \/ ParseTime(e) > ParseTime(avail.end_time)
             THEN ReasonHours
             ELSE ""

\* Mutant: the overlap loop over the bookings of the date, cancelled included.
OverlapFoundAnyStatus(d, s, e) ==
    \E i \in 1 .. Len(bookings) :
        /\ bookings[i].booking_date = d
        /\ bookings[i].start_time # <<>>
        /\ bookings[i].end_time # <<>>
        /\ Overlaps(ParseTime(s), ParseTime(e),
                    ParseTime(normalise_time(bookings[i].start_time)),
                    ParseTime(normalise_time(bookings[i].end_time)))

\* The overlap loop over the confirmed bookings of the date.
OverlapFound(d, s, e) ==
    \E i \in 1 .. Len(bookings) :
        /\ bookings[i].booking_date = d
        /\ bookings[i].status = "confirmed"
        /\ bookings[i].start_time # <<>>
        /\ bookings[i].end_time # <<>>
        /\ Overlaps(ParseTime(s), ParseTime(e),
                    ParseTime(normalise_time(bookings[i].start_time)),
                    ParseTime(normalise_time(bookings[i].end_time)))

\* Mutant: the overlap loop run before the policy and availability checks.
CreateRejectionOverlapFirst(d, s, e) ==
    IF InvalidFormat(s, e) THEN ReasonFormat
    ELSE IF MalformedInterval(s, e) THEN ReasonMalformed
    ELSE IF OverlapFound(d, s, e) THEN ReasonOverlap
    ELSE IF NoticeViolated(d, s) THEN ReasonNotice
    ELSE IF AdvanceViolated(d, s) THEN ReasonAdvance
    ELSE AvailabilityRejection(d, s, e)

\* create_booking up to the insert: the reason it returns, "" when it goes on
\* to insert.
CreateRejection(d, s, e) ==
    IF InvalidFormat(s, e) THEN ReasonFormat
    ELSE IF MalformedInterval(s, e) THEN ReasonMalformed
    ELSE IF NoticeViolated(d, s) THEN ReasonNotice
    ELSE IF AdvanceViolated(d, s) THEN ReasonAdvance
    ELSE IF AvailabilityRejection(d, s, e) # ""
    THEN AvailabilityRejection(d, s, e)
    ELSE IF OverlapFound(d, s, e) THEN ReasonOverlap
    ELSE ""

\* Mutant: the row inserted with another status.
NewBookingPending(d, s, e, u) ==
    BookingRow(u, d, StoredTime(s), StoredTime(e), "pending", <<>>)

\* booking_data, as the insert stores it
NewBooking(d, s, e, u) ==
    BookingRow(u, d, StoredTime(s), StoredTime(e), "confirmed", <<>>)

\* Mutant: the select of cancel_booking without .eq("status", "confirmed").
CancelAllowedAnyStatus(id, user_id) ==
    /\ id \in 1 .. Len(bookings)
    /\ (user_id # <<>> => bookings[id].user_id = user_id[1])
    /\ ~(get_settings # <<>> /\ ~get_settings[1].allow_cancellation)

\* Mutant: the select of cancel_booking without .eq("user_id", user_id).
CancelAllowedAnyUser(id, user_id) ==
    /\ id \in 1 .. Len(bookings)
    /\ bookings[id].status = "confirmed"
    /\ ~(get_settings # <<>> /\ ~get_settings[1].allow_cancellation)

\* Mutant: allow_cancellation consulted for the calls with a user_id only.
CancelAllowedSwitchForUsers(id, user_id) ==
    /\ id \in 1 .. Len(bookings)
    /\ bookings[id].status = "confirmed"
    /\ (user_id # <<>> => bookings[id].user_id = user_id[1])
    /\ ~(user_id # <<>> /\ get_settings # <<>>
            /\ ~get_settings[1].allow_cancellation)

\* A row as the listings return it: the row of id i with its times normalised.
ListedRow(i) ==
    [id |-> i, user_id |-> bookings[i].user_id,
     booking_date |-> bookings[i].booking_date,
     start_time |-> normalise_time(bookings[i].start_time),
     end_time |-> normalise_time(bookings[i].end_time),
     status |-> bookings[i].status]

\* .order("booking_date", desc=True) over the rows of `ids`: every order of
\* them in which booking_date never increases (the store orders rows of equal
\* booking_date as it likes).
OrderedByDateDesc(ids) ==
    {[k \in 1 .. Cardinality(ids) |-> ListedRow(f[k])] :
        f \in {g \in [1 .. Cardinality(ids) -> ids] :
                  /\ \A k, l \in 1 .. Cardinality(ids) : k # l => g[k] # g[l]
                  /\ \A k, l \in 1 .. Cardinality(ids) :
                        k < l => bookings[g[k]].booking_date
                                    >= bookings[g[l]].booking_date}}

\* get_user_bookings(user_id): the lists it may return.
get_user_bookings(user_id) ==
    OrderedByDateDesc({i \in 1 .. Len(bookings) : bookings[i].user_id = user_id})

\* get_all_bookings(date_from, date_to, status_filter): the lists it may
\* return; a filter that is <<>> is not applied.
get_all_bookings(date_from, date_to, status_filter) ==
    OrderedByDateDesc(
        {i \in 1 .. Len(bookings) :
            /\ date_from # <<>> => bookings[i].booking_date >= date_from[1]
            /\ date_to # <<>> => bookings[i].booking_date <= date_to[1]
            /\ status_filter # <<>> => bookings[i].status = status_filter[1]})

\* cancel_booking up to the update: TRUE when it goes on to update the row.
\* user_id is <<>> for the call without user_id (the administrator's).
CancelAllowed(id, user_id) ==
    /\ id \in 1 .. Len(bookings)
    /\ bookings[id].status = "confirmed"
    /\ (user_id # <<>> => bookings[id].user_id = user_id[1])
    /\ ~(get_settings # <<>> /\ ~get_settings[1].allow_cancellation)
    /\ ~(/\ user_id # <<>>
         /\ get_settings # <<>>
         /\ Truthy(get_settings[1].cancellation_notice_minutes)
         /\ bookings[id].start_time # <<>>
         /\ Combine(bookings[id].booking_date,
                    ParseTime(normalise_time(bookings[id].start_time))) - now
               < Minutes(get_settings[1].cancellation_notice_minutes[1]))

\* Mutant: the update with no filter on the id, which cancels every row.
CancelUpdateEveryRow(id) ==
    [i \in 1 .. Len(bookings) |->
        [bookings[i] EXCEPT !.status = "cancelled", !.cancelled_at = <<now>>]]

\* The update of cancel_booking: .update({...}).eq("id", booking_id)
CancelUpdate(id) ==
    [bookings EXCEPT ![id].status = "cancelled", ![id].cancelled_at = <<now>>]

\* ------------------------------------------------------------------ calls

Call(op, args, ok, reason, days) ==
    [op |-> op, args |-> args, ok |-> ok, reason |-> reason, days |-> days]

IdleCall == [pc |-> "idle", args |-> <<>>, reason |-> ""]

Init ==
    /\ settings = <<>>
    /\ general = <<>>
    /\ overrides = <<>>
    /\ bookings = <<>>
    /\ now = 539
    /\ last = Call("init", <<>>, TRUE, "", <<>>)
    /\ calls = [p \in Procs |-> IdleCall]
    /\ user_rows = <<>>
    /\ startup = [pc |-> "upsert", attempt |-> 1, upserts |-> 0, slept |-> 0,
                  succeeded |-> FALSE]
    /\ token_blacklist = <<>>
    /\ blacklisted_cache = {}
    /\ stored_ever = {}
    /\ revoked = {}

\* The clock advances.
Tick ==
    /\ \E t \in Nows : t > now /\ now' = t
    /\ last' = Call("tick", <<>>, TRUE, "", <<>>)
    /\ UNCHANGED <<settings, general, overrides, bookings, calls, process>>

\* upsert_settings(data), data drawn from `payloads`
UpsertSettings(payloads) ==
    /\ \E data \in payloads : settings' = upsert_settings(data)
    /\ last' = Call("upsert_settings", <<>>, TRUE, "", <<>>)
    /\ UNCHANGED <<general, overrides, bookings, now, calls, process>>

\* upsert_general_availability(days), days drawn from `payloads`
UpsertGeneralAvailability(payloads) ==
    /\ \E days \in payloads : general' = UpsertDays(general, days)
    /\ last' = Call("upsert_general_availability", <<>>, TRUE, "", <<>>)
    /\ UNCHANGED <<settings, overrides, bookings, now, calls, process>>

UpsertAvailabilityOverride ==
    /\ \E data \in OverridePayloads :
          /\ overrides' = upsert_availability_override(data)
          /\ last' = Call("upsert_availability_override", <<data>>, TRUE, "",
                          <<>>)
    /\ UNCHANGED <<settings, general, bookings, now, calls, process>>

DeleteAvailabilityOverride ==
    /\ \E d \in Dates :
          /\ overrides' = delete_availability_override(d)
          /\ last' = Call("delete_availability_override", <<d>>,
                          d \in DOMAIN overrides, "", <<>>)
    /\ UNCHANGED <<settings, general, bookings, now, calls, process>>

GetPublicAvailability ==
    /\ \E date_from \in Dates, date_to \in Dates :
          last' = Call("get_public_availability", <<date_from, date_to>>, TRUE,
                       "", get_public_availability(date_from, date_to))
    /\ UNCHANGED <<settings, general, overrides, bookings, now, calls, process>>

\* get_settings, called by the administrator's read; the list holds the row
GetSettings ==
    /\ last' = Call("get_settings", <<>>, TRUE, "", get_settings)
    /\ UNCHANGED <<settings, general, overrides, bookings, now, calls, process>>

\* get_availability_overrides(date_from, date_to); the list holds the rows by
\* override_date
GetAvailabilityOverrides ==
    /\ \E date_from \in Dates, date_to \in Dates :
          last' = Call("get_availability_overrides", <<date_from, date_to>>,
                       TRUE, "",
                       <<get_availability_overrides(date_from, date_to)>>)
    /\ UNCHANGED <<settings, general, overrides, bookings, now, calls, process>>

\* Mutant: the read that stores the default entries it makes up.
GetGeneralAvailabilityStoring ==
    /\ last' = Call("get_general_availability", <<>>, TRUE, "",
                    get_general_availability)
    /\ general' = [d \in 0 .. 6 |->
                      IF d \in DOMAIN general THEN general[d]
                      ELSE [is_enabled |-> d < 5,
                            start_time |-> StoredTime(<<8, 0>>),
                            end_time |-> StoredTime(<<17, 0>>)]]
    /\ UNCHANGED <<settings, overrides, bookings, now, calls, process>>

\* get_general_availability, called by the administrator's read
GetGeneralAvailability ==
    /\ last' = Call("get_general_availability", <<>>, TRUE, "",
                    get_general_availability)
    /\ UNCHANGED <<settings, general, overrides, bookings, now, calls, process>>

\* get_user_bookings(user_id), for a user of `users`
GetUserBookings(users) ==
    /\ \E u \in users : \E rows \in get_user_bookings(u) :
          last' = Call("get_user_bookings", <<u>>, TRUE, "", rows)
    /\ UNCHANGED <<settings, general, overrides, bookings, now, calls, process>>

\* get_all_bookings(date_from, date_to, status_filter), each filter optional
GetAllBookings ==
    /\ \E date_from \in {<<>>} \cup {<<d>> : d \in Dates},
          date_to \in {<<>>} \cup {<<d>> : d \in Dates},
          status_filter \in {<<>>, <<"confirmed">>, <<"cancelled">>} :
          \E rows \in get_all_bookings(date_from, date_to, status_filter) :
              last' = Call("get_all_bookings",
                           <<date_from, date_to, status_filter>>, TRUE, "",
                           rows)
    /\ UNCHANGED <<settings, general, overrides, bookings, now, calls, process>>

\* create_booking, run alone from its first line to its return, for a date of
\* `dates` and times of `pairs`, by a user of `users`, while the table holds
\* fewer than `cap` rows.
CreateBookingOn(dates, pairs, users, cap) ==
    /\ \E d \in dates, t \in pairs, u \in users :
          LET reason == CreateRejection(d, t[1], t[2])
          IN  /\ reason = "" => Len(bookings) < cap
              /\ bookings' = IF reason = ""
                             THEN Append(bookings, NewBooking(d, t[1], t[2], u))
                             ELSE bookings
              /\ last' = Call("create_booking", <<d, t[1], t[2], u>>,
                              reason = "", reason, <<>>)
    /\ UNCHANGED <<settings, general, overrides, now, calls, process>>

\* The same, for every date and every pair of times.
CreateBooking(users, cap) == CreateBookingOn(Dates, TimePairs, users, cap)

\* cancel_booking, run alone from its first line to its return; the requester
\* is the administrator (<<>>) or a user of `users`.
CancelBooking(users) ==
    /\ \E id \in 1 .. MaxBookings, user_id \in {<<>>} \cup {<<u>> : u \in users} :
          LET ok == CancelAllowed(id, user_id)
          IN  /\ bookings' = IF ok THEN CancelUpdate(id) ELSE bookings
              /\ last' = Call("cancel_booking", <<id, user_id>>, ok, "", <<>>)
    /\ UNCHANGED <<settings, general, overrides, now, calls, process>>

\* --------------------------------------------------------- the ledger
\* create_booking and cancel_booking, one call at a time, with no policy row
\* and the weekly template WeekA.

Next ==
    \/ UpsertGeneralAvailability({WeekA})
    \/ CreateBooking({1}, MaxBookings)
    \/ CancelBooking({1})

Spec == Init /\ [][Next]_vars

\* ------------------------------------------------- admission under policy
\* One create_booking at a time, under every policy and as the clock advances.

NextPolicy ==
    \/ Tick
    \/ UpsertSettings(PolicyPayloads)
    \/ UpsertGeneralAvailability({WeekA})
    \/ CreateBooking({1}, MaxAdmitted)

SpecPolicy == Init /\ [][NextPolicy]_vars

\* ------------------------------------------------- availability resolution
\* Templates and overrides vary; the policy only switches the availability
\* check on and off.

AvailPolicies ==
    {Policy(<<>>, <<>>, TRUE, <<>>, FALSE), Policy(<<>>, <<>>, TRUE, <<>>, TRUE)}

NextAvail ==
    \/ UpsertSettings(AvailPolicies)
    \/ UpsertGeneralAvailability(TemplatePayloads)
    \/ UpsertAvailabilityOverride
    \/ DeleteAvailabilityOverride
    \/ CreateBooking({1}, MaxAdmitted)

SpecAvail == Init /\ [][NextAvail]_vars

\* The same without bookings: the template, the overrides and the reads.
NextResolve ==
    \/ UpsertGeneralAvailability(TemplatePayloads)
    \/ UpsertAvailabilityOverride
    \/ DeleteAvailabilityOverride
    \/ GetPublicAvailability

SpecResolve == Init /\ [][NextResolve]_vars

\* ------------------------------------------------- concurrent admission
\* Each request is a call of create_booking whose select of the confirmed
\* bookings and whose insert are two round trips to the store; the calls of
\* different requests interleave between them. The requests are proper
\* intervals of one date.

ConcDate == {0}

InFlight == {p \in Procs : calls[p].pc = "insert"}

\* create_booking from its first line to the end of the overlap loop.
BeginCreateBooking(p) ==
    /\ calls[p].pc = "idle"
    /\ \E d \in ConcDate, t \in ProperPairs :
          LET reason == CreateRejection(d, t[1], t[2])
          IN  /\ reason = ""
                    => Len(bookings) + Cardinality(InFlight) < MaxBookings
              /\ calls' = [calls EXCEPT ![p] =
                              [pc |-> IF reason = "" THEN "insert" ELSE "done",
                               args |-> <<d, t[1], t[2], 1>>,
                               reason |-> reason]]
    /\ UNCHANGED <<settings, general, overrides, bookings, now, last, process>>

\* client.table("bookings").insert(booking_data).execute() and the return.
InsertBooking(p) ==
    /\ calls[p].pc = "insert"
    /\ bookings' = Append(bookings,
                          NewBooking(calls[p].args[1], calls[p].args[2],
                                     calls[p].args[3], calls[p].args[4]))
    /\ calls' = [calls EXCEPT ![p].pc = "done"]
    /\ UNCHANGED <<settings, general, overrides, now, last, process>>

\* The request is answered; the worker takes the next one.
FinishCreateBooking(p) ==
    /\ calls[p].pc = "done"
    /\ calls' = [calls EXCEPT ![p] = IdleCall]
    /\ UNCHANGED <<settings, general, overrides, bookings, now, last, process>>

NextConc ==
    \/ UpsertGeneralAvailability({WeekA})
    \/ \E p \in Procs : BeginCreateBooking(p)
    \/ \E p \in Procs : InsertBooking(p)
    \/ \E p \in Procs : FinishCreateBooking(p)

SpecConc == Init /\ [][NextConc]_vars

\* ------------------------------------------------------- cancellation
\* cancel_booking by the owner, by another user and by the administrator,
\* on bookings of one date, under the policies that switch cancellation off.

\* CalendarSettingsCreate payloads that differ in allow_cancellation.
SwitchPolicies ==
    {Policy(<<>>, <<>>, TRUE, <<>>, FALSE),
     Policy(<<>>, <<>>, FALSE, <<>>, FALSE),
     Policy(<<>>, <<>>, FALSE, <<30>>, FALSE)}

NextCancel ==
    \/ UpsertSettings(SwitchPolicies)
    \/ UpsertGeneralAvailability({WeekA})
    \/ CreateBookingOn(ConcDate, ProperPairs, {1, 2}, MaxAdmitted)
    \/ CancelBooking({1, 2})

SpecCancel == Init /\ [][NextCancel]_vars

\* The owner and the administrator cancel as the clock advances, under the
\* policies that differ in cancellation_notice_minutes.
NoticePolicies ==
    {Policy(<<>>, <<>>, TRUE, <<>>, FALSE),
     Policy(<<>>, <<>>, TRUE, <<30>>, FALSE),
     Policy(<<>>, <<>>, TRUE, <<0>>, FALSE)}

NextCancelNotice ==
    \/ Tick
    \/ UpsertSettings(NoticePolicies)
    \/ UpsertGeneralAvailability({WeekA})
    \/ CreateBookingOn(ConcDate, ProperPairs, {1}, MaxAdmitted)
    \/ CancelBooking({1})

SpecCancelNotice == Init /\ [][NextCancelNotice]_vars

\* ------------------------------------------------------- the template
\* Every list of days that passes the validators is written; the template and
\* the days are read back.

NextTemplate ==
    \/ UpsertGeneralAvailability(ValidTemplates)
    \/ UpsertAvailabilityOverride
    \/ DeleteAvailabilityOverride
    \/ GetGeneralAvailability
    \/ GetPublicAvailability

SpecTemplate == Init /\ [][NextTemplate]_vars

\* ------------------------------------------------------- the listings
\* Bookings are created and cancelled one call at a time and listed.

NextList ==
    \/ UpsertGeneralAvailability({WeekA})
    \/ CreateBookingOn(Dates, ProperPairs, {1}, MaxBookings)
    \/ CancelBooking({1})
    \/ GetUserBookings({1})
    \/ GetAllBookings

SpecList == Init /\ [][NextList]_vars

\* ------------------------------------------------- concurrent cancellation
\* Each request is a call of cancel_booking whose select of the confirmed row
\* (with the policy tests) and whose update are separate round trips to the
\* store; the calls of different requests interleave between them, and the
\* clock advances.

\* What calls[p].reason holds when cancel_booking returned False.
CancelRefused == "False"

\* cancel_booking from its first line to the end of the notice test.
BeginCancelBooking(p) ==
    /\ calls[p].pc = "idle"
    /\ \E id \in 1 .. MaxAdmitted, user_id \in {<<>>, <<1>>} :
          calls' = [calls EXCEPT ![p] =
                       [pc |-> IF CancelAllowed(id, user_id)
                               THEN "update" ELSE "done",
                        args |-> <<id, user_id>>,
                        reason |-> IF CancelAllowed(id, user_id)
                                   THEN "" ELSE CancelRefused]]
    /\ UNCHANGED <<settings, general, overrides, bookings, now, last, process>>

\* client.table("bookings").update({...}).eq("id", booking_id).execute() and
\* return True.
UpdateCancelBooking(p) ==
    /\ calls[p].pc = "update"
    /\ bookings' = CancelUpdate(calls[p].args[1])
    /\ calls' = [calls EXCEPT ![p].pc = "done"]
    /\ UNCHANGED <<settings, general, overrides, now, last, process>>

\* The request is answered; the worker takes the next one.
FinishCancelBooking(p) ==
    /\ calls[p].pc = "done"
    /\ calls' = [calls EXCEPT ![p] = IdleCall]
    /\ UNCHANGED <<settings, general, overrides, bookings, now, last, process>>

NextConcCancel ==
    \/ Tick
    \/ UpsertGeneralAvailability({WeekA})
    \/ CreateBookingOn(ConcDate, ProperPairs, {1}, MaxAdmitted)
    \/ \E p \in Procs : BeginCancelBooking(p)
    \/ \E p \in Procs : UpdateCancelBooking(p)
    \/ \E p \in Procs : FinishCancelBooking(p)

SpecConcCancel == Init /\ [][NextConcCancel]_vars

\* ------------------------------------------------- template being written
\* upsert_general_availability writes its rows one round trip after the
\* other; get_public_availability runs between them, and a round trip may
\* raise, which ends the call. One such call is in flight at a time.

\* What calls[p].reason holds when the store raised.
StoreError == "store error"

\* upsert_general_availability up to its loop.
BeginUpsertGeneralAvailability(p) ==
    /\ calls[p].pc = "idle"
    /\ \E days \in TemplatePayloads :
          calls' = [calls EXCEPT ![p] =
                       [pc |-> "upsert", args |-> days, reason |-> ""]]
    /\ UNCHANGED <<settings, general, overrides, bookings, now, last, process>>

\* One iteration of the loop: the upsert of the next day; after the last one
\* the call returns.
UpsertDay(p) ==
    /\ calls[p].pc = "upsert"
    /\ general' = UpsertDays(general, <<Head(calls[p].args)>>)
    /\ calls' = [calls EXCEPT ![p].args = Tail(calls[p].args),
                              ![p].pc = IF Tail(calls[p].args) = <<>>
                                        THEN "done" ELSE "upsert"]
    /\ UNCHANGED <<settings, overrides, bookings, now, last, process>>

\* The upsert of the next day raises; the exception ends the call.
FailUpsertDay(p) ==
    /\ calls[p].pc = "upsert"
    /\ calls' = [calls EXCEPT ![p].pc = "done", ![p].reason = StoreError]
    /\ UNCHANGED <<settings, general, overrides, bookings, now, last, process>>

\* The request is answered; the worker takes the next one.
FinishUpsertGeneralAvailability(p) ==
    /\ calls[p].pc = "done"
    /\ calls' = [calls EXCEPT ![p] = IdleCall]
    /\ UNCHANGED <<settings, general, overrides, bookings, now, last, process>>

NextConcTemplate ==
    \/ BeginUpsertGeneralAvailability(1)
    \/ UpsertDay(1)
    \/ FailUpsertDay(1)
    \/ FinishUpsertGeneralAvailability(1)
    \/ GetPublicAvailability

SpecConcTemplate == Init /\ [][NextConcTemplate]_vars

\* ------------------------------------------------- concurrent policy writes
\* Each request is a call of upsert_settings whose get_settings and whose
\* update or insert are separate round trips to the store; the calls of
\* different requests interleave between them.

\* upsert_settings up to `if existing`: existing is None (<<>>) or the id of
\* the row .limit(1) returned, any row of the table when it holds several.
BeginUpsertSettings(p) ==
    /\ calls[p].pc = "idle"
    /\ \E data \in AvailPolicies :
          \E existing \in IF settings = <<>> THEN {<<>>}
                          ELSE {<<i>> : i \in 1 .. Len(settings)} :
              calls' = [calls EXCEPT ![p] =
                           [pc |-> "write", args |-> <<data, existing>>,
                            reason |-> ""]]
    /\ UNCHANGED <<settings, general, overrides, bookings, now, last, process>>

\* The update of the existing row by id, or the insert of a new row.
WriteSettings(p) ==
    /\ calls[p].pc = "write"
    /\ settings' = IF calls[p].args[2] # <<>>
                   THEN [settings EXCEPT ![calls[p].args[2][1]] =
                                             calls[p].args[1]]
                   ELSE Append(settings, calls[p].args[1])
    /\ calls' = [calls EXCEPT ![p].pc = "done"]
    /\ UNCHANGED <<general, overrides, bookings, now, last, process>>

\* The request is answered; the worker takes the next one.
FinishUpsertSettings(p) ==
    /\ calls[p].pc = "done"
    /\ calls' = [calls EXCEPT ![p] = IdleCall]
    /\ UNCHANGED <<settings, general, overrides, bookings, now, last, process>>

NextConcSettings ==
    \/ \E p \in Procs : BeginUpsertSettings(p)
    \/ \E p \in Procs : WriteSettings(p)
    \/ \E p \in Procs : FinishUpsertSettings(p)

SpecConcSettings == Init /\ [][NextConcSettings]_vars

\* ------------------------------------------------- policy time zone
\* The policy row carries the timezone field of CalendarSettingsCreate, which
\* create_booking and cancel_booking never read.

\* The payload p with its timezone field.
ZonedPolicy(tz, p) ==
    [timezone |-> tz,
     min_booking_notice_minutes |-> p.min_booking_notice_minutes,
     max_advance_booking_days |-> p.max_advance_booking_days,
     allow_cancellation |-> p.allow_cancellation,
     cancellation_notice_minutes |-> p.cancellation_notice_minutes,
     allow_booking_outside_availability |->
         p.allow_booking_outside_availability]

\* CalendarSettingsCreate payloads with a notice of 30 minutes, in UTC (the
\* default) and in a zone one hour ahead of UTC.
ZonePolicies ==
    {ZonedPolicy("UTC", Policy(<<30>>, <<>>, TRUE, <<>>, FALSE)),
     ZonedPolicy("Europe/Rome", Policy(<<30>>, <<>>, TRUE, <<>>, FALSE))}

NextZone ==
    \/ Tick
    \/ UpsertSettings(ZonePolicies)
    \/ UpsertGeneralAvailability({WeekA})
    \/ CreateBooking({1}, MaxAdmitted)

SpecZone == Init /\ [][NextZone]_vars

\* ------------------------------------------------------- the reads
\* Every table is written and every read function is called.

NextReads ==
    \/ UpsertSettings({Policy(<<>>, <<>>, TRUE, <<>>, FALSE)})
    \/ UpsertGeneralAvailability({WeekDup})
    \/ UpsertAvailabilityOverride
    \/ CreateBookingOn(ConcDate, ProperPairs, {1}, MaxAdmitted)
    \/ GetSettings
    \/ GetGeneralAvailability
    \/ GetAvailabilityOverrides
    \/ GetPublicAvailability
    \/ GetUserBookings({1})
    \/ GetAllBookings

SpecReads == Init /\ [][NextReads]_vars

\* ------------------------------------------- rejections and the ledger
\* create_booking with every kind of request and cancel_booking by two users
\* and the administrator, under policies that make each check refuse.

FramePolicies ==
    {Policy(<<>>, <<>>, TRUE, <<>>, FALSE),
     Policy(<<30>>, <<1>>, TRUE, <<30>>, FALSE),
     Policy(<<>>, <<>>, FALSE, <<>>, FALSE)}

\* Two proper intervals, one with start >= end and one dt_time refuses.
FramePairs ==
    {<<<<9, 0>>, <<9, 30>>>>, <<<<9, 30>>, <<10, 0>>>>,
     <<<<9, 30>>, <<9, 0>>>>, <<<<24, 0>>, <<9, 0>>>>}

NextFrame ==
    \/ UpsertSettings(FramePolicies)
    \/ UpsertGeneralAvailability(TemplatePayloads)
    \/ CreateBookingOn(Dates, FramePairs, {1}, MaxBookings)
    \/ CancelBooking({1, 2})

SpecFrame == Init /\ [][NextFrame]_vars

\* ------------------------------------------------------------ the process
\* The lifespan coroutine of main.py runs before the application serves; the
\* token blacklist is used by the requests served after it. Other processes
\* write and clean the token_blacklist table at any time.

AdminUsername == "admin"

\* What run_admin_upsert leaves in the users table: the row of the admin
\* username updated if the select finds one, inserted if not.
admin_upsert(tbl) ==
    IF \E i \in 1 .. Len(tbl) : tbl[i].username = AdminUsername
    THEN LET existing_id ==
                 CHOOSE i \in 1 .. Len(tbl) :
                     /\ tbl[i].username = AdminUsername
                     /\ \A j \in 1 .. i - 1 : tbl[j].username # AdminUsername
         IN  [tbl EXCEPT ![existing_id].username = AdminUsername]
    ELSE Append(tbl, [username |-> AdminUsername, is_active |-> TRUE])

Serving == startup.pc = "serving"

\* Mutant: the loop without the break, which goes on to the next attempt
\* after a success.
RunAdminUpsertNoBreak ==
    /\ startup.pc = "upsert"
    /\ user_rows' = admin_upsert(user_rows)
    /\ startup' = [startup EXCEPT
                      !.pc = IF startup.attempt = MAX_RETRIES THEN "serving"
                             ELSE "upsert",
                      !.attempt = IF startup.attempt = MAX_RETRIES THEN @
                                  ELSE @ + 1,
                      !.upserts = @ + 1, !.succeeded = TRUE]
    /\ last' = Call("run_admin_upsert", <<startup.attempt>>, TRUE, "", <<>>)
    /\ UNCHANGED <<settings, general, overrides, bookings, now, calls,
                   token_blacklist, blacklisted_cache, stored_ever, revoked>>

\* An attempt of the loop in which run_admin_upsert returns: break, yield.
RunAdminUpsert ==
    /\ startup.pc = "upsert"
    /\ user_rows' = admin_upsert(user_rows)
    /\ startup' = [startup EXCEPT !.pc = "serving", !.upserts = @ + 1,
                                  !.succeeded = TRUE]
    /\ last' = Call("run_admin_upsert", <<startup.attempt>>, TRUE, "", <<>>)
    /\ UNCHANGED <<settings, general, overrides, bookings, now, calls,
                   token_blacklist, blacklisted_cache, stored_ever, revoked>>

\* An attempt in which run_admin_upsert raises, before its write or after
\* the store applied it: on the last attempt the loop ends and the coroutine
\* yields, on the others it sleeps.
FailAdminUpsert ==
    /\ startup.pc = "upsert"
    /\ \E written \in BOOLEAN :
          user_rows' = IF written THEN admin_upsert(user_rows) ELSE user_rows
    /\ startup' = [startup EXCEPT
                      !.pc = IF startup.attempt = MAX_RETRIES THEN "serving"
                             ELSE "sleep",
                      !.upserts = @ + 1]
    /\ last' = Call("run_admin_upsert", <<startup.attempt>>, FALSE, StoreError,
                    <<>>)
    /\ UNCHANGED <<settings, general, overrides, bookings, now, calls,
                   token_blacklist, blacklisted_cache, stored_ever, revoked>>

\* await asyncio.sleep(RETRY_DELAY_SECONDS), then the next attempt.
Sleep ==
    /\ startup.pc = "sleep"
    /\ startup' = [startup EXCEPT !.pc = "upsert", !.attempt = @ + 1,
                                  !.slept = @ + RETRY_DELAY_SECONDS]
    /\ last' = Call("sleep", <<RETRY_DELAY_SECONDS>>, TRUE, "", <<>>)
    /\ UNCHANGED <<settings, general, overrides, bookings, now, calls,
                   user_rows,
                   token_blacklist, blacklisted_cache, stored_ever, revoked>>

\* The raw JWTs of the requests and the expires_at of their exp claims.
Tokens == {"jwt1", "jwt2"}
Expiries == {540, 600}

\* _hash_token: the SHA-256 hex digest of the token; different tokens have
\* different digests and no digest is a token.
hash_token(token) == IF token = "jwt1" THEN "9f2c" ELSE "41bd"

\* upsert({token_hash, expires_at}, on_conflict="token_hash")
blacklist_upsert(token_hash, expires_at) ==
    [h \in DOMAIN token_blacklist \cup {token_hash} |->
        IF h = token_hash THEN expires_at ELSE token_blacklist[h]]

\* Mutant: blacklist_token that writes the table and not the cache.
BlacklistTokenStoreOnly ==
    /\ Serving
    /\ \E token \in Tokens, expires_at \in Expiries :
          /\ token_blacklist' = blacklist_upsert(hash_token(token), expires_at)
          /\ stored_ever' = stored_ever \cup {hash_token(token)}
          /\ revoked' = revoked \cup {token}
          /\ last' = Call("blacklist_token", <<token, expires_at>>, TRUE, "",
                          <<>>)
    /\ UNCHANGED <<settings, general, overrides, bookings, now, calls,
                   user_rows,
                   startup, blacklisted_cache>>

\* blacklist_token(token, expires_at) that returns: the upsert, then the hash
\* added to the cache.
BlacklistToken ==
    /\ Serving
    /\ \E token \in Tokens, expires_at \in Expiries :
          /\ token_blacklist' = blacklist_upsert(hash_token(token), expires_at)
          /\ blacklisted_cache' = blacklisted_cache \cup {hash_token(token)}
          /\ stored_ever' = stored_ever \cup {hash_token(token)}
          /\ revoked' = revoked \cup {token}
          /\ last' = Call("blacklist_token", <<token, expires_at>>, TRUE, "",
                          <<>>)
    /\ UNCHANGED <<settings, general, overrides, bookings, now, calls,
                   user_rows,
                   startup>>

\* blacklist_token whose upsert raises, before the store wrote the row or
\* after: the except branch logs and raises again, the cache is not touched.
FailBlacklistToken ==
    /\ Serving
    /\ \E token \in Tokens, expires_at \in Expiries, written \in BOOLEAN :
          /\ token_blacklist' =
                 IF written
                 THEN blacklist_upsert(hash_token(token), expires_at)
                 ELSE token_blacklist
          /\ stored_ever' =
                 IF written THEN stored_ever \cup {hash_token(token)}
                 ELSE stored_ever
          /\ last' = Call("blacklist_token", <<token, expires_at>>, FALSE,
                          StoreError, <<>>)
    /\ UNCHANGED <<settings, general, overrides, bookings, now, calls,
                   user_rows,
                   startup, blacklisted_cache, revoked>>

\* is_token_blacklisted(token): the cache, else the select by token_hash,
\* whose hit is added to the cache. last.ok is the value returned.
IsTokenBlacklisted ==
    /\ Serving
    /\ \E token \in Tokens :
          LET token_hash == hash_token(token)
          IN  IF token_hash \in blacklisted_cache
              THEN /\ last' = Call("is_token_blacklisted", <<token>>, TRUE, "",
                                   <<>>)
                   /\ UNCHANGED blacklisted_cache
              ELSE IF token_hash \in DOMAIN token_blacklist
              THEN /\ blacklisted_cache' = blacklisted_cache \cup {token_hash}
                   /\ last' = Call("is_token_blacklisted", <<token>>, TRUE, "",
                                   <<>>)
              ELSE /\ last' = Call("is_token_blacklisted", <<token>>, FALSE,
                                   "", <<>>)
                   /\ UNCHANGED blacklisted_cache
    /\ UNCHANGED <<settings, general, overrides, bookings, now, calls,
                   user_rows,
                   startup, token_blacklist, stored_ever, revoked>>

\* cleanup_expired_tokens, in this process or another: delete the rows with
\* expires_at < now. last.days holds the number of rows removed.
CleanupExpiredTokens ==
    /\ LET kept == {h \in DOMAIN token_blacklist : ~(token_blacklist[h] < now)}
       IN  /\ token_blacklist' = [h \in kept |-> token_blacklist[h]]
           /\ last' = Call("cleanup_expired_tokens", <<>>, TRUE, "",
                           <<Cardinality(DOMAIN token_blacklist \ kept)>>)
    /\ UNCHANGED <<settings, general, overrides, bookings, now, calls,
                   user_rows,
                   startup, blacklisted_cache, stored_ever, revoked>>

\* blacklist_token in another process: the row is written, the cache of this
\* process is not.
OtherBlacklistToken ==
    /\ \E token \in Tokens, expires_at \in Expiries :
          /\ token_blacklist' = blacklist_upsert(hash_token(token), expires_at)
          /\ stored_ever' = stored_ever \cup {hash_token(token)}
    /\ UNCHANGED <<settings, general, overrides, bookings, now, last, calls,
                   user_rows, startup, blacklisted_cache, revoked>>

LifespanStep == RunAdminUpsert \/ FailAdminUpsert \/ Sleep

NextProcess ==
    \/ Tick
    \/ RunAdminUpsert
    \/ FailAdminUpsert
    \/ Sleep
    \/ BlacklistToken
    \/ FailBlacklistToken
    \/ IsTokenBlacklisted
    \/ CleanupExpiredTokens
    \/ OtherBlacklistToken

SpecProcess == Init /\ [][NextProcess]_vars

\* The event loop runs the lifespan coroutine: each await of
\* run_admin_upsert returns or raises and each sleep ends.
FairSpecProcess == SpecProcess /\ WF_vars(LifespanStep)

\* ================================================================ claims

\* Minutes since midnight of a wall-clock value "HH:MM" or "HH:MM:SS".
WallMinutes(x) == x[1] * 60 + x[2]

\* The instant at which a booking on date d at wall-clock value x starts.
StartInstant(d, x) == d * 1440 + WallMinutes(x)

Confirmed(i) == bookings[i].status = "confirmed"

\* [a.start, a.end) and [b.start, b.end) are disjoint.
Disjoint(a, b) ==
    ~(/\ WallMinutes(a.start_time) < WallMinutes(b.end_time)
      /\ WallMinutes(a.end_time) > WallMinutes(b.start_time))

\* The last call was create_booking with parseable times and start < end.
LastCreateWellFormed ==
    /\ last.op = "create_booking"
    /\ \A k \in {2, 3} : last.args[k][1] \in 0 .. 23 /\ last.args[k][2] \in 0 .. 59
    /\ WallMinutes(last.args[2]) < WallMinutes(last.args[3])

\* C1: with calls run one at a time, any two distinct confirmed bookings of the
\* same booking_date have disjoint half-open intervals.
C1_NoOverlap ==
    \A i, j \in 1 .. Len(bookings) :
        (/\ i # j
         /\ Confirmed(i)
         /\ Confirmed(j)
         /\ bookings[i].booking_date = bookings[j].booking_date)
            => Disjoint(bookings[i], bookings[j])

\* C1 witness: two confirmed bookings share a date (one ends where the other
\* starts) after a third request on that date was turned down as overlapping.
C1_Witness ==
    /\ Len(bookings) = 2
    /\ Confirmed(1)
    /\ Confirmed(2)
    /\ bookings[1].booking_date = bookings[2].booking_date
    /\ last.op = "create_booking"
    /\ last.reason = ReasonOverlap
    /\ last.args[1] = bookings[1].booking_date

\* C2: of two concurrent create_booking calls for overlapping intervals on one
\* date, never both are committed.
C2_AtomicAdmission ==
    \A p, q \in Procs :
        (/\ p # q
         /\ calls[p].pc = "done"
         /\ calls[q].pc = "done"
         /\ calls[p].reason = ""
         /\ calls[q].reason = ""
         /\ calls[p].args[1] = calls[q].args[1])
            => ~(/\ WallMinutes(calls[p].args[2]) < WallMinutes(calls[q].args[3])
                 /\ WallMinutes(calls[p].args[3]) > WallMinutes(calls[q].args[2]))

\* C3: in every interleaving, a request is turned down as overlapping only if
\* the table holds a booking of its date whose half-open interval intersects
\* its own, and a request that was not turned down has its row, confirmed, in
\* the table; so requests that are pairwise non-overlapping (touching at an
\* endpoint included) are all committed.
C3_NonConflictingAdmitted ==
    \A p \in Procs :
        calls[p].pc = "done" =>
            /\ calls[p].reason = ReasonOverlap =>
                  \E i \in 1 .. Len(bookings) :
                      /\ bookings[i].booking_date = calls[p].args[1]
                      /\ WallMinutes(calls[p].args[2])
                            < WallMinutes(bookings[i].end_time)
                      /\ WallMinutes(calls[p].args[3])
                            > WallMinutes(bookings[i].start_time)
            /\ calls[p].reason = "" =>
                  \E i \in 1 .. Len(bookings) :
                      /\ Confirmed(i)
                      /\ bookings[i].booking_date = calls[p].args[1]
                      /\ WallMinutes(bookings[i].start_time)
                            = WallMinutes(calls[p].args[2])
                      /\ WallMinutes(bookings[i].end_time)
                            = WallMinutes(calls[p].args[3])

\* C3 witness: two requests on one date, one ending where the other starts,
\* have both been committed.
C3_Witness ==
    /\ \A p \in {1, 2} : calls[p].pc = "done" /\ calls[p].reason = ""
    /\ calls[1].args[1] = calls[2].args[1]
    /\ calls[1].args[3] = calls[2].args[2]
    /\ Len(bookings) = 2

\* The "HH:MM" part of a stored time, <<>> when the column is NULL.
HourMinute(x) == IF x = <<>> THEN <<>> ELSE <<x[1], x[2]>>

\* What the override row o alone says about its date.
OverrideAlone(o, a) ==
    /\ a.is_available = ~o.is_closed
    /\ ~o.is_closed =>
          /\ a.start_time = HourMinute(o.start_time)
          /\ a.end_time = HourMinute(o.end_time)

\* C4: for every date that has an override, what _get_day_availability returns
\* and the date's entry in the days of get_public_availability are given by the
\* override row alone (closed if is_closed, else open with its start and end),
\* whatever the weekly template holds for that weekday.
C4_OverridePrecedence ==
    /\ \A d \in DOMAIN overrides :
          /\ OverrideAlone(overrides[d], get_day_availability(d))
          /\ OverrideAlone(overrides[d], get_public_availability(d, d)[1])
          /\ get_public_availability(d, d)[1].is_override
    /\ last.op = "get_public_availability" =>
          \A k \in 1 .. Len(last.days) :
              last.days[k].date \in DOMAIN overrides =>
                  OverrideAlone(overrides[last.days[k].date], last.days[k])

\* C4 witness: get_public_availability has reported a date whose override is
\* open while the template row of its weekday is disabled, and a date whose
\* override is closed while the template row of its weekday is enabled.
C4_Witness ==
    /\ last.op = "get_public_availability"
    /\ Len(last.days) >= 2
    /\ \E k \in 1 .. Len(last.days) :
          LET d == last.days[k].date
          IN  /\ d \in DOMAIN overrides
              /\ ~overrides[d].is_closed
              /\ Weekday(d) \in DOMAIN general
              /\ ~general[Weekday(d)].is_enabled
              /\ last.days[k].is_available
    /\ \E k \in 1 .. Len(last.days) :
          LET d == last.days[k].date
          IN  /\ d \in DOMAIN overrides
              /\ overrides[d].is_closed
              /\ Weekday(d) \in DOMAIN general
              /\ general[Weekday(d)].is_enabled
              /\ ~last.days[k].is_available

\* The policy row, when there is one, forbids booking outside availability.
AvailabilityEnforced ==
    settings = <<>> \/ ~settings[1].allow_booking_outside_availability

\* C5: while allow_booking_outside_availability is false, an admitted booking
\* is on a date whose effective availability is open and lies within the
\* window's start and end, and a request on a closed date is turned down with
\* the no-availability reason.
C5_AdmissionRespectsAvailability ==
    (LastCreateWellFormed /\ AvailabilityEnforced) =>
        LET d == last.args[1]
            a == get_day_availability(d)
        IN  /\ last.ok =>
                  /\ a.is_available
                  /\ a.start_time # <<>> =>
                        WallMinutes(last.args[2]) >= WallMinutes(a.start_time)
                  /\ a.end_time # <<>> =>
                        WallMinutes(last.args[3]) <= WallMinutes(a.end_time)
            /\ ~a.is_available => last.reason = ReasonClosed

C7_NoticeBoundary ==
    (/\ LastCreateWellFormed
     /\ settings # <<>>
     /\ settings[1].min_booking_notice_minutes # <<>>)
        => (last.reason = ReasonNotice
              <=> StartInstant(last.args[1], last.args[2]) - now
                     < settings[1].min_booking_notice_minutes[1])

\* The notice limit, when there is one, is met by the last request.
NoticeMet ==
    \/ settings = <<>>
    \/ settings[1].min_booking_notice_minutes = <<>>
    \/ StartInstant(last.args[1], last.args[2]) - now
          >= settings[1].min_booking_notice_minutes[1]

\* C8: with max_advance_booking set to d days, create_booking (the notice limit
\* being met) rejects for advance exactly when bookingStart - now > d days.
C8_AdvanceBoundary ==
    (/\ LastCreateWellFormed
     /\ settings # <<>>
     /\ settings[1].max_advance_booking_days # <<>>
     /\ NoticeMet)
        => (last.reason = ReasonAdvance
              <=> StartInstant(last.args[1], last.args[2]) - now
                     > settings[1].max_advance_booking_days[1] * 1440)

\* C9: a policy limit is skipped if and only if it is null or there is no
\* policy; every non-null value, 0 included, is enforced.
C9_NullMeansNoConstraint ==
    LastCreateWellFormed =>
        /\ (settings = <<>> \/ settings[1].min_booking_notice_minutes = <<>>)
              => last.reason # ReasonNotice
        /\ ~NoticeMet => last.reason = ReasonNotice
        /\ (settings = <<>> \/ settings[1].max_advance_booking_days = <<>>)
              => last.reason # ReasonAdvance
        /\ (/\ NoticeMet
            /\ settings # <<>>
            /\ settings[1].max_advance_booking_days # <<>>
            /\ StartInstant(last.args[1], last.args[2]) - now
                  > settings[1].max_advance_booking_days[1] * 1440)
              => last.reason = ReasonAdvance

\* C10: a booking is created confirmed, the only change of status any step
\* makes is confirmed -> cancelled, and so a cancelled booking is never
\* confirmed again.
C10_StatusMachine ==
    [][/\ Len(bookings') >= Len(bookings)
       /\ \A i \in 1 .. Len(bookings') :
             IF i <= Len(bookings)
             THEN \/ bookings'[i].status = bookings[i].status
                  \/ /\ bookings[i].status = "confirmed"
                     /\ bookings'[i].status = "cancelled"
             ELSE bookings'[i].status = "confirmed"
      ]_vars

\* C10 witness: a booking was cancelled and a new booking of the same date and
\* interval was created; the cancelled one stays cancelled.
C10_Witness ==
    /\ Len(bookings) = 2
    /\ bookings[1].status = "cancelled"
    /\ bookings[2].status = "confirmed"
    /\ bookings[1].booking_date = bookings[2].booking_date
    /\ bookings[1].start_time = bookings[2].start_time
    /\ bookings[1].end_time = bookings[2].end_time

\* The row the step's cancel_booking call names is in the table, confirmed.
CancelTargetConfirmed ==
    /\ last'.args[1] \in 1 .. Len(bookings)
    /\ bookings[last'.args[1]].status = "confirmed"

\* C11: with calls run one at a time, cancel_booking succeeds only for a
\* booking that is in the table and confirmed, and then leaves it cancelled; a
\* cancel_booking of a cancelled booking (so every one that follows a
\* successful one), by the owner or by the administrator, and a cancel_booking
\* of an id the table does not hold, fail and change no row.
C11_CancelTerminal ==
    [][last'.op = "cancel_booking" =>
        /\ last'.ok =>
              /\ CancelTargetConfirmed
              /\ bookings'[last'.args[1]].status = "cancelled"
        /\ ~CancelTargetConfirmed => (~last'.ok /\ bookings' = bookings)
      ]_vars

\* C11 witness: the administrator's cancel_booking of a booking that was
\* cancelled before has failed.
C11_Witness ==
    /\ last.op = "cancel_booking"
    /\ last.args[2] = <<>>
    /\ ~last.ok
    /\ last.args[1] \in 1 .. Len(bookings)
    /\ bookings[last.args[1]].status = "cancelled"

\* C12: a cancel_booking with a user_id that is not the owner of the booking
\* fails and changes no row, and any step that moves a booking to cancelled is
\* a cancel_booking of that booking by its owner or without user_id.
C12_CancelOwnership ==
    [][/\ (/\ last'.op = "cancel_booking"
           /\ last'.args[2] # <<>>
           /\ last'.args[1] \in 1 .. Len(bookings)
           /\ bookings[last'.args[1]].user_id # last'.args[2][1])
              => (~last'.ok /\ bookings' = bookings)
       /\ \A i \in 1 .. Len(bookings) :
             (i <= Len(bookings') /\ bookings'[i].status # bookings[i].status)
                => /\ last'.op = "cancel_booking"
                   /\ last'.args[1] = i
                   /\ \/ last'.args[2] = <<>>
                      \/ last'.args[2] = <<bookings[i].user_id>>
      ]_vars

\* C12 witness: with no policy row, user 2's cancel_booking of a confirmed
\* booking of user 1 has failed and the booking is still confirmed.
C12_Witness ==
    /\ settings = <<>>
    /\ last.op = "cancel_booking"
    /\ last.args[2] = <<2>>
    /\ ~last.ok
    /\ last.args[1] \in 1 .. Len(bookings)
    /\ bookings[last.args[1]].user_id = 1
    /\ bookings[last.args[1]].status = "confirmed"

\* C13: while the policy row has allow_cancellation false, every cancel_booking
\* fails and changes no row, for the owner and the administrator alike,
\* whatever cancellation_notice_minutes holds.
C13_CancellationSwitch ==
    [][(/\ last'.op = "cancel_booking"
        /\ settings # <<>>
        /\ ~settings[1].allow_cancellation)
           => (~last'.ok /\ bookings' = bookings)
      ]_vars

\* C13 witness: with allow_cancellation false and a cancellation notice set,
\* the administrator's cancel_booking of a confirmed booking has failed.
C13_Witness ==
    /\ settings # <<>>
    /\ ~settings[1].allow_cancellation
    /\ settings[1].cancellation_notice_minutes # <<>>
    /\ last.op = "cancel_booking"
    /\ last.args[2] = <<>>
    /\ ~last.ok
    /\ last.args[1] \in 1 .. Len(bookings)
    /\ bookings[last.args[1]].status = "confirmed"

\* C14: with cancellation allowed and cancellation_notice set to c minutes, the
\* owner's cancel_booking of a confirmed booking fails exactly when
\* bookingStart - now < c (it succeeds when bookingStart - now = c), and the
\* administrator's cancel_booking of a confirmed booking succeeds.
C14_CancelNoticeWindow ==
    [][(/\ last'.op = "cancel_booking"
        /\ CancelTargetConfirmed
        /\ settings # <<>>
        /\ settings[1].allow_cancellation
        /\ settings[1].cancellation_notice_minutes # <<>>)
           => LET b == bookings[last'.args[1]]
                  c == settings[1].cancellation_notice_minutes[1]
              IN  /\ last'.args[2] = <<b.user_id>> =>
                        (~last'.ok
                            <=> StartInstant(b.booking_date, b.start_time) - now
                                   < c)
                  /\ last'.args[2] = <<>> => last'.ok
      ]_vars

\* C15: a create_booking that gets as far as the overlap check is rejected for
\* overlap exactly when the table holds a confirmed booking of the same
\* booking_date whose interval intersects the request's; cancelled bookings
\* and bookings of other dates never cause the rejection, so the interval of
\* a cancelled booking can be booked again.
C15_OverlapScope ==
    [][(last'.op = "create_booking"
            /\ last'.reason \in {"", ReasonOverlap}) =>
        (last'.reason = ReasonOverlap
            <=> \E i \in 1 .. Len(bookings) :
                    /\ bookings[i].status = "confirmed"
                    /\ bookings[i].booking_date = last'.args[1]
                    /\ WallMinutes(last'.args[2])
                          < WallMinutes(bookings[i].end_time)
                    /\ WallMinutes(last'.args[3])
                          > WallMinutes(bookings[i].start_time))
      ]_vars

\* C15 witness: a request for the date and interval of a cancelled booking has
\* just been admitted.
C15_Witness ==
    /\ Len(bookings) = 2
    /\ bookings[1].status = "cancelled"
    /\ bookings[2].status = "confirmed"
    /\ last.op = "create_booking"
    /\ last.ok
    /\ last.args[1] = bookings[1].booking_date
    /\ WallMinutes(last.args[2]) = WallMinutes(bookings[1].start_time)
    /\ WallMinutes(last.args[3]) = WallMinutes(bookings[1].end_time)

\* C16: the days of get_public_availability(date_from, date_to) hold one entry
\* per date of [date_from, date_to], the k-th being the date date_from + k - 1
\* (ascending, no gap, no duplicate), and no entry when date_from > date_to.
C16_RangeResolution ==
    last.op = "get_public_availability" =>
        /\ Len(last.days) = IF last.args[1] > last.args[2] THEN 0
                            ELSE last.args[2] - last.args[1] + 1
        /\ \A k \in 1 .. Len(last.days) :
              last.days[k].date = last.args[1] + k - 1

\* C16 witness: a range of more than one date has been resolved, one of its
\* dates from an override and another from the template.
C16_Witness ==
    /\ last.op = "get_public_availability"
    /\ last.args[1] < last.args[2]
    /\ Len(last.days) >= 2
    /\ \E k \in 1 .. Len(last.days) : last.days[k].is_override
    /\ \E k \in 1 .. Len(last.days) : ~last.days[k].is_override

\* What the template row g alone says about its weekday.
TemplateAlone(g, a) ==
    /\ a.is_available = g.is_enabled
    /\ g.is_enabled =>
          /\ a.start_time = HourMinute(g.start_time)
          /\ a.end_time = HourMinute(g.end_time)

\* C17: an upsert_availability_override leaves exactly one override for its
\* date, holding what this call wrote (it replaces the row the date had), and
\* changes the override of no other date; a delete_availability_override
\* leaves the date with no override and the other dates as they were, and
\* the date is then resolved from the template row of its weekday.
C17_OverrideUpsert ==
    [][/\ last'.op = "upsert_availability_override" =>
             LET data == last'.args[1]
                 d == data.override_date
             IN  /\ DOMAIN overrides' = DOMAIN overrides \cup {d}
                 /\ overrides'[d].is_closed = data.is_closed
                 /\ HourMinute(overrides'[d].start_time) = data.start_time
                 /\ HourMinute(overrides'[d].end_time) = data.end_time
                 /\ \A k \in DOMAIN overrides \ {d} :
                       overrides'[k] = overrides[k]
       /\ \A d \in Dates :
             (last'.op = "delete_availability_override" /\ last'.args[1] = d)
                => /\ DOMAIN overrides' = DOMAIN overrides \ {d}
                   /\ \A k \in DOMAIN overrides' : overrides'[k] = overrides[k]
                   /\ ~get_public_availability(d, d)'[1].is_override
                   /\ Weekday(d) \in DOMAIN general' =>
                         /\ TemplateAlone(general'[Weekday(d)],
                                          get_day_availability(d)')
                         /\ TemplateAlone(general'[Weekday(d)],
                                          get_public_availability(d, d)'[1])
      ]_vars

\* C17 witness: the override of a date, which closed it, has been deleted and
\* the date is open again, as the template row of its weekday says.
C17_Witness ==
    /\ last.op = "delete_availability_override"
    /\ last.ok
    /\ last.args[1] \notin DOMAIN overrides
    /\ Weekday(last.args[1]) \in DOMAIN general
    /\ general[Weekday(last.args[1])].is_enabled
    /\ get_day_availability(last.args[1]).is_available

\* C18: every stored override with is_closed false has a start and an end,
\* with start < end.
C18_OverrideWellFormed ==
    \A d \in DOMAIN overrides :
        ~overrides[d].is_closed =>
            /\ overrides[d].start_time # <<>>
            /\ overrides[d].end_time # <<>>
            /\ WallMinutes(overrides[d].start_time)
                  < WallMinutes(overrides[d].end_time)

\* C19: after an upsert_general_availability whose list of days passed the
\* validators of AvailabilityGeneralUpdate, the stored template has exactly
\* one row for each day_of_week 0..6.
C19_TemplateComplete ==
    last.op = "upsert_general_availability" => DOMAIN general = 0 .. 6

\* C20: get_user_bookings and get_all_bookings return the bookings newest
\* first by creation: of two returned bookings the one created later (the one
\* with the greater id) comes earlier.
C20_ListingOrder ==
    last.op \in {"get_user_bookings", "get_all_bookings"} =>
        \A k, l \in 1 .. Len(last.days) :
            k < l => last.days[k].id > last.days[l].id

\* C21: of the concurrent cancel_booking calls on one booking id, at most one
\* returns success.
C21_CancelOnce ==
    \A p, q \in Procs :
        (/\ p # q
         /\ calls[p].pc = "done"
         /\ calls[q].pc = "done"
         /\ calls[p].args[1] = calls[q].args[1])
            => ~(calls[p].reason = "" /\ calls[q].reason = "")

\* The template a reader sees before the first write: the default entries.
DefaultWeek == [d \in 1 .. 7 |-> DayRow(d - 1, d - 1 < 5, <<8, 0>>, <<17, 0>>)]

\* The entry `day` of get_public_availability is what the list of days `tpl`
\* says of its weekday.
DayFromTemplate(day, tpl) ==
    LET t == tpl[Weekday(day.date) + 1]
    IN  /\ day.is_available = t.is_enabled
        /\ t.is_enabled =>
              /\ day.start_time = t.start_time
              /\ day.end_time = t.end_time

\* C22: whenever get_public_availability runs, the days it resolves from the
\* template all come from one template: a list of days that was written as a
\* whole, or the default entries before any write; never some weekdays from
\* one list and others from another.
C22_AtomicTemplate ==
    last.op = "get_public_availability" =>
        \E tpl \in TemplatePayloads \cup {DefaultWeek} :
            \A k \in 1 .. Len(last.days) :
                ~last.days[k].is_override => DayFromTemplate(last.days[k], tpl)

\* C23: in every interleaving of upsert_settings calls the calendar_settings
\* table holds at most one row, and once a call has completed exactly one,
\* holding the values of a write.
C23_PolicySingleton ==
    /\ Len(settings) <= 1
    /\ (\E p \in Procs : calls[p].pc = "done") => Len(settings) = 1

\* Minutes a zone's wall clock is ahead of UTC on the dates of the model.
ZoneOffset(tz) == IF tz = "Europe/Rome" THEN 60 ELSE 0

\* C24: the start instant the notice check uses is the booking's date and
\* start time in the policy's timezone: with a notice of m minutes the request
\* is rejected for notice exactly when that instant minus now is below m.
C24_ConfiguredZone ==
    (/\ LastCreateWellFormed
     /\ settings # <<>>
     /\ settings[1].min_booking_notice_minutes # <<>>)
        => (last.reason = ReasonNotice
              <=> StartInstant(last.args[1], last.args[2])
                     - ZoneOffset(settings[1].timezone) - now
                     < settings[1].min_booking_notice_minutes[1])

\* The condition on which the failed cancel_booking call c (a value of last)
\* failed, in the order cancel_booking tests them; a failed call leaves the
\* tables as they were.
CancelFailure(c) ==
    IF \/ c.args[1] \notin 1 .. Len(bookings)
       \/ bookings[c.args[1]].status # "confirmed"
    THEN "NotFound"
    ELSE IF c.args[2] # <<>> /\ bookings[c.args[1]].user_id # c.args[2][1]
    THEN "Forbidden"
    ELSE IF settings # <<>> /\ ~settings[1].allow_cancellation
    THEN "PolicyDisabled"
    ELSE "PolicyViolation"

\* C25: a failed cancel_booking tells its caller which condition failed: two
\* calls that fail on different conditions (booking not found or not
\* confirmed, requester not the owner, cancellation disabled, notice
\* violated) never return the same value.
C25_TypedRejections ==
    [][(/\ last.op = "cancel_booking"
        /\ ~last.ok
        /\ last'.op = "cancel_booking"
        /\ ~last'.ok
        /\ CancelFailure(last) # CancelFailure(last'))
           => <<last.ok, last.reason>> # <<last'.ok, last'.reason>>
      ]_vars

\* The names of the read functions.
ReadOps ==
    {"get_settings", "get_general_availability", "get_availability_overrides",
     "get_public_availability", "get_user_bookings", "get_all_bookings"}

\* C26: a call of a read function leaves the settings row, the template rows,
\* the overrides and the bookings as they were; the default entries of
\* get_general_availability are in what it returns and not in the table.
C26_ReadsPure ==
    [][last'.op \in ReadOps =>
          /\ settings' = settings
          /\ general' = general
          /\ overrides' = overrides
          /\ bookings' = bookings
      ]_vars

\* C26 witness: get_general_availability has returned 7 entries, the one of
\* Sunday a default entry, while the table holds rows for some weekdays and
\* none for Sunday.
C26_Witness ==
    /\ last.op = "get_general_availability"
    /\ Len(last.days) = 7
    /\ general # <<>>
    /\ 6 \notin DOMAIN general
    /\ last.days[7] = DayRow(6, FALSE, <<8, 0>>, <<17, 0>>)

\* C27: what get_public_availability reports for a date (is_available,
\* start_time, end_time) is what _get_day_availability returns for that date,
\* whatever the template and override tables hold, a template table without
\* a row for the weekday included.
C27_PublishedIsEnforced ==
    last.op = "get_public_availability" =>
        \A k \in 1 .. Len(last.days) :
            LET day == last.days[k]
                enforced == get_day_availability(day.date)
            IN  /\ day.is_available = enforced.is_available
                /\ day.start_time = enforced.start_time
                /\ day.end_time = enforced.end_time

\* The reasons create_booking rejects with.
CreateReasons ==
    {ReasonFormat, ReasonMalformed, ReasonNotice, ReasonAdvance, ReasonClosed,
     ReasonHours, ReasonOverlap}

\* C28: a create_booking that returns a rejection and a cancel_booking that
\* returns failure leave the bookings, their statuses and cancelled_at as
\* they were; a cancel_booking that succeeds changes the targeted booking
\* only.
C28_RejectionsFrame ==
    [][/\ (last'.op = "create_booking" /\ ~last'.ok) =>
              (last'.reason \in CreateReasons /\ bookings' = bookings)
       /\ (last'.op = "cancel_booking" /\ ~last'.ok) => bookings' = bookings
       /\ (last'.op = "cancel_booking" /\ last'.ok) =>
              /\ Len(bookings') = Len(bookings)
              /\ \A i \in 1 .. Len(bookings) :
                    i # last'.args[1] => bookings'[i] = bookings[i]
      ]_vars

\* C28 witness: a cancel_booking has succeeded on one of two bookings and the
\* other one is still confirmed with no cancelled_at.
C28_Witness ==
    /\ last.op = "cancel_booking" /\ last.ok
    /\ Len(bookings) = 2
    /\ bookings[last.args[1]].status = "cancelled"
    /\ \E i \in 1 .. 2 :
          /\ i # last.args[1]
          /\ bookings[i].status = "confirmed"
          /\ bookings[i].cancelled_at = <<>>

\* C29: a call of is_token_blacklisted(t) made after blacklist_token(t) has
\* returned in this process returns true, whatever cleanup_expired_tokens and
\* other blacklist_token calls did in between; and it returns true only for
\* a token whose hash the table has held at some time, the cache holding
\* only such hashes.
C29_RevocationPermanent ==
    [][/\ \A t \in Tokens :
             (last'.op = "is_token_blacklisted" /\ last'.args[1] = t) =>
                 /\ t \in revoked => last'.ok
                 /\ last'.ok => hash_token(t) \in stored_ever
       /\ blacklisted_cache' \subseteq stored_ever'
      ]_vars

\* C29 witness: is_token_blacklisted has returned true for a token revoked
\* in this process whose row cleanup_expired_tokens has deleted.
C29_Witness ==
    /\ last.op = "is_token_blacklisted" /\ last.ok
    /\ last.args[1] \in revoked
    /\ hash_token(last.args[1]) \notin DOMAIN token_blacklist

\* The counts of a startup in progress or over: at most MAX_RETRIES calls,
\* one sleep after every failed attempt but the last.
StartupCounts ==
    /\ startup.upserts <= MAX_RETRIES
    /\ startup.pc = "sleep" =>
           ~startup.succeeded /\ startup.upserts < MAX_RETRIES
    /\ Serving =>
           /\ startup.upserts >= 1
           /\ startup.slept = RETRY_DELAY_SECONDS * (startup.upserts - 1)
           /\ ~startup.succeeded => startup.upserts = MAX_RETRIES

\* After a successful attempt no other one is made, and a sleep is the step
\* from a failed attempt that was not the last to the next attempt.
StartupStep ==
    /\ startup.succeeded => startup'.upserts = startup.upserts
    /\ startup'.slept # startup.slept =>
           /\ startup.pc = "sleep" /\ startup'.pc = "upsert"
           /\ startup'.slept = startup.slept + RETRY_DELAY_SECONDS
           /\ startup'.attempt <= MAX_RETRIES

\* C30: the lifespan startup calls run_admin_upsert at most MAX_RETRIES
\* times, makes no call after the first success, sleeps only between a
\* failed attempt and the next one, and always comes to serve, five
\* failures in a row included.
C30_BoundedStartup ==
    /\ []StartupCounts
    /\ [][StartupStep]_vars
    /\ <>Serving

\* C30 witness: the application serves after MAX_RETRIES failed attempts
\* and MAX_RETRIES - 1 sleeps.
C30_Witness ==
    /\ Serving
    /\ ~startup.succeeded
    /\ startup.upserts = MAX_RETRIES
    /\ startup.slept = RETRY_DELAY_SECONDS * (MAX_RETRIES - 1)

====
